---- MODULE Spec2Model ----
(***************************************************************************)
(* A model of the GTFS feed parser (feed.go): the Parse orchestrator, the  *)
(* record source getFile, the per-file stages, the deferred parent-station *)
(* pass of parseStops and the two consistency checks checkShapeMeasure and *)
(* checkStopTimeMeasure.                                                   *)
(*                                                                         *)
(* Go slices are 0-based, TLA+ sequences 1-based: the Go element s[k] is   *)
(* the TLA+ element s[k+1]; At(s, k) reads it.                             *)
(***************************************************************************)
EXTENDS Integers, Sequences, FiniteSets, TLC

VARIABLES
    opts,           \* feed.opts : ParseOptions
    pc,             \* position of the running operation
    shape,          \* the Points of the shape handed to checkShapeMeasure
    shape0,         \* the same Points as they were before the check
    trip,           \* the StopTimes of the trip handed to checkStopTimeMeasure
    trip0,          \* the same StopTimes as they were before the check
    ret,            \* the value the operation returned
    fault,          \* TRUE when the operation ended by a run-time panic
    srcKind,        \* what path names: a directory, an archive, or nothing
    present,        \* the names of the data files the source holds
    files,          \* the records of each data file, in file order
    feed,           \* the tables of the Feed
    e,              \* the local e of Parse
    started,        \* the stages Parse has started, in order
    open,           \* the file handles / entry streams opened and not closed
    zipFileCloser,  \* feed.zipFileCloser: "nil" or "zip"
    curFileHandle,  \* feed.curFileHandle: "nil" or the name of a file
    zipCloses,      \* how often the archive handle was closed
    cause           \* the record a fatal record error stems from (history)

checkVars == <<opts, pc, shape, shape0, trip, trip0, ret, fault>>

parseVars == <<srcKind, present, files, feed, e, started, open, zipFileCloser,
               curFileHandle, zipCloses, cause>>

vars == <<checkVars, parseVars>>

-----------------------------------------------------------------------------
(* Bounds of the model *)

MaxPts == 4
MaxSt == 3

DistValues == {0, 1, 2}
TimeValues == {0, 1}

(* float32(math.Inf(-1)): below every distance of DistValues *)
NegInf == -1

(* Time.Empty(): the time field was not given *)
EmptyTime == -1

-----------------------------------------------------------------------------
(* Values *)

ParseOptions ==
    [UseDefValueOnError : BOOLEAN, DropErroneous : BOOLEAN, DryRun : BOOLEAN]

NoErr == [kind |-> "nil", file |-> "", line |-> 0, msg |-> ""]

PlainError(m) == [kind |-> "error", file |-> "", line |-> 0, msg |-> m]

ParseError(f, l, m) == [kind |-> "ParseError", file |-> f, line |-> l, msg |-> m]

(* s[k] of Go *)
At(s, k) == s[k + 1]

InRange(s, k) == 0 <= k /\ k < Len(s)

(* s[:i+copy(s[i:], s[i+1:])] : the slice without its element i *)
RemoveAt(s, i) == [k \in 1..(Len(s) - 1) |-> IF k <= i THEN s[k] ELSE s[k + 1]]

HasDistanceTraveled(p) == p.Has_dist

-----------------------------------------------------------------------------
(* sort.Sort(shape.Points), sort.Sort(trip.StopTimes): by Sequence.        *)
(* The inputs of the model carry distinct sequence numbers, so the order   *)
(* is determined.                                                          *)

RECURSIVE InsertBySeq(_, _)
InsertBySeq(x, s) ==
    IF s = <<>> THEN <<x>>
    ELSE IF x.Sequence < s[1].Sequence THEN <<x>> \o s
    ELSE <<s[1]>> \o InsertBySeq(x, Tail(s))

RECURSIVE SortBySeq(_)
SortBySeq(s) ==
    IF s = <<>> THEN <<>> ELSE InsertBySeq(s[1], SortBySeq(Tail(s)))

-----------------------------------------------------------------------------
(* checkShapeMeasure: one call of ShapeLoop is one evaluation of the loop  *)
(* condition j < len(shape.Points) followed by one iteration.              *)

ClearDistKeepsFlag(p) == [p EXCEPT !.Dist_traveled = 0]

ClearDist(p) == [p EXCEPT !.Dist_traveled = 0, !.Has_dist = FALSE]

RECURSIVE ShapeLoop(_, _, _, _, _)
ShapeLoop(pts, j, deleted, max, opt) ==
    IF ~(j < Len(pts)) THEN [points |-> pts, err |-> NoErr, seq |-> 0]
    ELSE
        LET i == j - deleted
            max1 == IF HasDistanceTraveled(At(pts, i - 1))
                    THEN At(pts, i - 1).Dist_traveled ELSE max
            bad == HasDistanceTraveled(At(pts, i)) /\ max1 > At(pts, i).Dist_traveled
        IN  IF ~bad THEN ShapeLoop(pts, j + 1, deleted, max1, opt)
            ELSE IF opt.UseDefValueOnError
            THEN ShapeLoop([pts EXCEPT ![i + 1] = ClearDist(@)], j + 1, deleted, max1, opt)
            ELSE IF opt.DropErroneous
            THEN ShapeLoop(RemoveAt(pts, i), j + 1, deleted + 1, max1, opt)
            ELSE [points |-> pts,
                  err |-> PlainError("shape_dist_traveled does not increase"),
                  seq |-> At(pts, i).Sequence]

checkShapeMeasure(pts, opt) == ShapeLoop(pts, 1, 0, NegInf, opt)

-----------------------------------------------------------------------------
(* checkStopTimeMeasure.  Every index expression of the Go code is checked *)
(* against the current length; an access outside it is the run-time panic  *)
(* "index out of range", reported as fault.                                *)

StFault(sts) == [stopTimes |-> sts, err |-> NoErr, fault |-> TRUE, seq |-> 0]

TimeOrderBroken(prev, cur) ==
    /\ prev.Departure_time # EmptyTime
    /\ cur.Arrival_time # EmptyTime
    /\ prev.Departure_time > cur.Arrival_time

ClearStDist(st) == [st EXCEPT !.Shape_dist_traveled = 0, !.Has_dist = FALSE]

RECURSIVE StopTimeLoop(_, _, _, _, _)
StopTimeLoop(sts, j, deleted, max, opt) ==
    IF ~(j < Len(sts))
    THEN [stopTimes |-> sts, err |-> NoErr, fault |-> FALSE, seq |-> 0]
    ELSE
        LET i == j - deleted
        IN  IF ~InRange(sts, i - 1) \/ ~InRange(sts, i) THEN StFault(sts)
            ELSE IF TimeOrderBroken(At(sts, i - 1), At(sts, i)) /\ ~opt.DropErroneous
            THEN [stopTimes |-> sts,
                  err |-> PlainError("arrival before previous departure"),
                  fault |-> FALSE, seq |-> At(sts, i).Sequence]
            ELSE
                LET dropT == TimeOrderBroken(At(sts, i - 1), At(sts, i))
                    sts1 == IF dropT THEN RemoveAt(sts, i) ELSE sts
                    del1 == IF dropT THEN deleted + 1 ELSE deleted
                    max1 == IF HasDistanceTraveled(At(sts1, i - 1))
                            THEN At(sts1, i - 1).Shape_dist_traveled ELSE max
                IN  IF ~InRange(sts1, i) THEN StFault(sts1)
                    ELSE IF ~(HasDistanceTraveled(At(sts1, i))
                              /\ max1 > At(sts1, i).Shape_dist_traveled)
                    THEN StopTimeLoop(sts1, j + 1, del1, max1, opt)
                    ELSE IF opt.UseDefValueOnError
                    THEN StopTimeLoop([sts1 EXCEPT ![i + 1] = ClearStDist(@)],
                                      j + 1, del1, max1, opt)
                    ELSE IF opt.DropErroneous
                    THEN StopTimeLoop(RemoveAt(sts1, i), j + 1, del1 + 1, max1, opt)
                    ELSE [stopTimes |-> sts1,
                          err |-> PlainError("shape_dist_traveled does not increase"),
                          fault |-> FALSE, seq |-> At(sts1, i).Sequence]

checkStopTimeMeasure(sts, opt) == StopTimeLoop(sts, 1, 0, NegInf, opt)

-----------------------------------------------------------------------------
(* Inputs of the two checks *)

SeqsUpTo(S, n) == UNION {[1..k -> S] : k \in 0..n}

ShapePointValues == [Has_dist : BOOLEAN, Dist_traveled : DistValues]

(* a point that declares no distance holds the zero value *)
WellFormedDist(has, d) == has \/ d = 0

ShapeInputs ==
    {[k \in 1..Len(s) |->
        [Sequence |-> k, Has_dist |-> s[k].Has_dist,
         Dist_traveled |-> s[k].Dist_traveled]] :
     s \in {t \in SeqsUpTo(ShapePointValues, MaxPts) :
              \A k \in 1..Len(t) : WellFormedDist(t[k].Has_dist, t[k].Dist_traveled)}}

StopTimeValues ==
    {v \in [Arrival_time : TimeValues \cup {EmptyTime},
            Departure_time : TimeValues \cup {EmptyTime},
            Has_dist : BOOLEAN, Shape_dist_traveled : {0, 1}] :
        WellFormedDist(v.Has_dist, v.Shape_dist_traveled)}

StopTimeInputs ==
    {[k \in 1..Len(s) |->
        [Sequence |-> k, Arrival_time |-> s[k].Arrival_time,
         Departure_time |-> s[k].Departure_time, Has_dist |-> s[k].Has_dist,
         Shape_dist_traveled |-> s[k].Shape_dist_traveled]] :
     s \in SeqsUpTo(StopTimeValues, MaxSt)}

-----------------------------------------------------------------------------
(* A Feed as NewFeed returns it, with no parse under way *)

EmptyMap == <<>>

NewFeed ==
    [Agencies |-> EmptyMap, Stops |-> EmptyMap, Routes |-> EmptyMap,
     Trips |-> EmptyMap, Services |-> EmptyMap, FareAttributes |-> EmptyMap,
     Shapes |-> EmptyMap, Transfers |-> <<>>, FeedInfos |-> <<>>]

NoCause == [file |-> "", line |-> 0]

ParseIdle ==
    /\ srcKind = "dir"
    /\ present = {}
    /\ files = EmptyMap
    /\ feed = NewFeed
    /\ e = NoErr
    /\ started = <<>>
    /\ open = {}
    /\ zipFileCloser = "nil"
    /\ curFileHandle = "nil"
    /\ zipCloses = 0
    /\ cause = NoCause

-----------------------------------------------------------------------------
(* The shape check of Parse on one shape *)

InitShape ==
    /\ opts \in ParseOptions
    /\ pc = "shape"
    /\ shape \in ShapeInputs
    /\ shape0 = shape
    /\ trip = <<>>
    /\ trip0 = <<>>
    /\ ret = NoErr
    /\ fault = FALSE
    /\ ParseIdle

CheckShape ==
    /\ pc = "shape"
    /\ LET r == checkShapeMeasure(SortBySeq(shape), opts)
       IN  /\ shape' = r.points
           /\ ret' = r.err
    /\ pc' = "done"
    /\ UNCHANGED <<opts, shape0, trip, trip0, fault, parseVars>>

NextShape == CheckShape

SpecShape == InitShape /\ [][NextShape]_vars

-----------------------------------------------------------------------------
(* The stop-time check of Parse on one trip *)

InitStopTime ==
    /\ opts \in ParseOptions
    /\ pc = "stoptime"
    /\ trip \in StopTimeInputs
    /\ trip0 = trip
    /\ shape = <<>>
    /\ shape0 = <<>>
    /\ ret = NoErr
    /\ fault = FALSE
    /\ ParseIdle

CheckStopTime ==
    /\ pc = "stoptime"
    /\ LET r == checkStopTimeMeasure(SortBySeq(trip), opts)
       IN  /\ trip' = r.stopTimes
           /\ ret' = r.err
           /\ fault' = r.fault
           /\ pc' = IF r.fault THEN "panic" ELSE "done"
    /\ UNCHANGED <<opts, shape, shape0, trip0, parseVars>>

NextStopTime == CheckStopTime

SpecStopTime == InitStopTime /\ [][NextStopTime]_vars

-----------------------------------------------------------------------------
(* Maps of the Feed: a table is a function from the ids it holds *)

Put(m, k, v) == [x \in DOMAIN m \cup {k} |-> IF x = k THEN v ELSE m[x]]

Del(m, k) == [x \in DOMAIN m \ {k} |-> m[x]]

(* the orders in which a range over a map with key set S can visit it *)
Orders(S) ==
    {o \in [1..Cardinality(S) -> S] : \A a, b \in DOMAIN o : a # b => o[a] # o[b]}

EntityKept(opt) == "full"

(* Route, Service: the entity, or the nil that dry_run stores in its place *)
Entity(opt) == IF opt.DryRun THEN "nil" ELSE "full"

NilShape == [isNil |-> TRUE, Points |-> <<>>]

NilTrip == [isNil |-> TRUE, StopTimes |-> <<>>]

-----------------------------------------------------------------------------
(* The record reader: the header is line 1, the k-th record is line k + 1, *)
(* and Curline is the line of the record read last.                        *)

LineOf(k) == k + 1

Curline(recs) == Len(recs) + 1

-----------------------------------------------------------------------------
(* getFile.  s is the state of a Parse under way:                          *)
(*   feed, e, open, zipFileCloser, curFileHandle, cause, fault             *)

getFile(s, name) ==
    IF srcKind = "none" THEN [found |-> FALSE, s |-> s]
    ELSE IF srcKind = "dir"
    THEN LET s1 == IF s.curFileHandle # "nil"
                   THEN [s EXCEPT !.open = @ \ {s.curFileHandle}] ELSE s
         IN  IF name \in present
             THEN [found |-> TRUE, s |-> [s1 EXCEPT !.open = @ \cup {name}]]
             ELSE [found |-> FALSE, s |-> s1]
    ELSE LET s1 == IF s.zipFileCloser = "nil"
                   THEN [s EXCEPT !.zipFileCloser = "zip"] ELSE s
         IN  IF name \in present
             THEN [found |-> TRUE, s |-> [s1 EXCEPT !.open = @ \cup {name}]]
             ELSE [found |-> FALSE, s |-> s1]

-----------------------------------------------------------------------------
(* The materializers, with the insertion each stage makes of their result. *)
(* A record's bad field says that its materializer reports a field error;  *)
(* under use_default_on_error the materializer substitutes a default.      *)

FieldError(rec, opt) == rec.bad /\ ~opt.UseDefValueOnError

(* a reference to an id its table does not hold is a field error too *)
Dangling(table, id, opt) == id \notin DOMAIN table /\ ~opt.UseDefValueOnError

Made(fd) == [failed |-> FALSE, feed |-> fd]

Failed(fd) == [failed |-> TRUE, feed |-> fd]

createAgency(fd, rec, opt) ==
    IF FieldError(rec, opt) THEN Failed(fd)
    ELSE Made([fd EXCEPT !.Agencies = Put(@, rec.id, "full")])

createFeedInfo(fd, rec, opt) ==
    IF FieldError(rec, opt) THEN Failed(fd)
    ELSE IF ~opt.DryRun THEN Made([fd EXCEPT !.FeedInfos = Append(@, "full")])
    ELSE Made(fd)

createShapePoint(fd, rec, k, opt) ==
    IF FieldError(rec, opt) THEN Failed(fd)
    ELSE LET pt == [Sequence |-> rec.Sequence, Has_dist |-> rec.Has_dist,
                    Dist_traveled |-> rec.Dist_traveled, line |-> LineOf(k)]
             old == IF rec.id \in DOMAIN fd.Shapes
                    THEN fd.Shapes[rec.id].Points ELSE <<>>
         IN  Made([fd EXCEPT !.Shapes =
                      Put(@, rec.id, [isNil |-> FALSE, Points |-> Append(old, pt)])])

createRoute(fd, rec, opt) ==
    IF FieldError(rec, opt) \/ Dangling(fd.Agencies, rec.agency_id, opt) THEN Failed(fd)
    ELSE Made([fd EXCEPT !.Routes = Put(@, rec.id, Entity(opt))])

(* a service that is already in the table is updated in place, and nil is returned *)
createService(fd, rec, opt) ==
    IF FieldError(rec, opt) THEN Failed(fd)
    ELSE IF rec.id \in DOMAIN fd.Services THEN Made(fd)
    ELSE Made([fd EXCEPT !.Services = Put(@, rec.id, Entity(opt))])

createTrip(fd, rec, opt) ==
    IF \/ FieldError(rec, opt)
       \/ Dangling(fd.Routes, rec.route_id, opt)
       \/ Dangling(fd.Services, rec.service_id, opt)
    THEN Failed(fd)
    ELSE Made([fd EXCEPT !.Trips =
                  Put(@, rec.id, [isNil |-> FALSE, StopTimes |-> <<>>])])

(* a stop-time is appended to its trip, so without the trip there is none *)
createStopTime(fd, rec, k, opt) ==
    IF \/ FieldError(rec, opt)
       \/ Dangling(fd.Stops, rec.stop_id, opt)
       \/ rec.id \notin DOMAIN fd.Trips
    THEN Failed(fd)
    ELSE LET st == [Sequence |-> rec.Sequence, Arrival_time |-> rec.Arrival_time,
                    Departure_time |-> rec.Departure_time, Has_dist |-> rec.Has_dist,
                    Shape_dist_traveled |-> rec.Shape_dist_traveled,
                    line |-> LineOf(k)]
         IN  Made([fd EXCEPT !.Trips[rec.id].StopTimes = Append(@, st)])

createFareAttribute(fd, rec, opt) ==
    IF FieldError(rec, opt) THEN Failed(fd)
    ELSE Made([fd EXCEPT !.FareAttributes = Put(@, rec.id, "full")])

createFareRule(fd, rec, opt) ==
    IF FieldError(rec, opt) \/ Dangling(fd.FareAttributes, rec.fare_id, opt)
    THEN Failed(fd) ELSE Made(fd)

createFrequency(fd, rec, opt) ==
    IF FieldError(rec, opt) \/ Dangling(fd.Trips, rec.trip_id, opt)
    THEN Failed(fd) ELSE Made(fd)

createTransfer(fd, rec, opt) ==
    IF FieldError(rec, opt) \/ Dangling(fd.Stops, rec.from_stop_id, opt)
    THEN Failed(fd)
    ELSE IF ~opt.DryRun THEN Made([fd EXCEPT !.Transfers = Append(@, "full")])
    ELSE Made(fd)

Materialize(name, fd, rec, k, opt) ==
    CASE name = "agency.txt" -> createAgency(fd, rec, opt)
      [] name = "feed_info.txt" -> createFeedInfo(fd, rec, opt)
      [] name = "shapes.txt" -> createShapePoint(fd, rec, k, opt)
      [] name = "routes.txt" -> createRoute(fd, rec, opt)
      [] name = "calendar.txt" -> createService(fd, rec, opt)
      [] name = "calendar_dates.txt" -> createService(fd, rec, opt)
      [] name = "trips.txt" -> createTrip(fd, rec, opt)
      [] name = "stop_times.txt" -> createStopTime(fd, rec, k, opt)
      [] name = "fare_attributes.txt" -> createFareAttribute(fd, rec, opt)
      [] name = "fare_rules.txt" -> createFareRule(fd, rec, opt)
      [] name = "frequencies.txt" -> createFrequency(fd, rec, opt)
      [] name = "transfers.txt" -> createTransfer(fd, rec, opt)

-----------------------------------------------------------------------------
(* The record loop every stage runs, and the deferred recover that turns a *)
(* panic into a ParseError with reader.Curline.                            *)

RECURSIVE ReadLoop(_, _, _, _, _)
ReadLoop(name, recs, fd, k, opt) ==
    IF k > Len(recs) THEN [feed |-> fd, err |-> NoErr, cause |-> NoCause]
    ELSE LET r == Materialize(name, fd, recs[k], k, opt)
         IN  IF r.failed
             THEN IF opt.DropErroneous THEN ReadLoop(name, recs, fd, k + 1, opt)
                  ELSE [feed |-> fd,
                        err |-> ParseError(name, LineOf(k), "field error"),
                        cause |-> [file |-> name, line |-> LineOf(k)]]
             ELSE ReadLoop(name, recs, r.feed, k + 1, opt)

(* a stage: getFile, then the record loop; required says what a missing    *)
(* file makes the stage return                                              *)
ParseStage(s, name, required, opt) ==
    LET g == getFile(s, name)
    IN  IF ~g.found
        THEN IF required
             THEN [g.s EXCEPT !.e = PlainError("Could not open required file " \o name)]
             ELSE g.s
        ELSE LET r == ReadLoop(name, files[name], g.s.feed, 1, opt)
             IN  [g.s EXCEPT !.feed = r.feed, !.e = r.err, !.cause = r.cause]

parseAgencies(s, opt) == ParseStage(s, "agency.txt", TRUE, opt)

parseFeedInfos(s, opt) == ParseStage(s, "feed_info.txt", FALSE, opt)

parseShapes(s, opt) == ParseStage(s, "shapes.txt", FALSE, opt)

parseRoutes(s, opt) == ParseStage(s, "routes.txt", TRUE, opt)

parseCalendar(s, opt) == ParseStage(s, "calendar.txt", FALSE, opt)

parseCalendarDates(s, opt) == ParseStage(s, "calendar_dates.txt", FALSE, opt)

parseTrips(s, opt) == ParseStage(s, "trips.txt", TRUE, opt)

parseStopTimes(s, opt) == ParseStage(s, "stop_times.txt", TRUE, opt)

parseFareAttributes(s, opt) == ParseStage(s, "fare_attributes.txt", FALSE, opt)

parseFareAttributeRules(s, opt) == ParseStage(s, "fare_rules.txt", FALSE, opt)

parseFrequencies(s, opt) == ParseStage(s, "frequencies.txt", FALSE, opt)

parseTransfers(s, opt) == ParseStage(s, "transfers.txt", FALSE, opt)

-----------------------------------------------------------------------------
(* parseStops: the record loop, then the pass that writes the parents.     *)
(* parentStopIds maps a stop id to the parent_station of its record (with  *)
(* the line of that record); order is the order in which the range over    *)
(* parentStopIds visits it.                                                *)

NewStop == [Parent_station |-> ""]

RECURSIVE StopsReadLoop(_, _, _, _, _)
StopsReadLoop(recs, stops, pids, k, opt) ==
    IF k > Len(recs)
    THEN [Stops |-> stops, pids |-> pids, err |-> NoErr, cause |-> NoCause]
    ELSE IF FieldError(recs[k], opt)
    THEN IF opt.DropErroneous THEN StopsReadLoop(recs, stops, pids, k + 1, opt)
         ELSE [Stops |-> stops, pids |-> pids,
               err |-> ParseError("stops.txt", LineOf(k), "field error"),
               cause |-> [file |-> "stops.txt", line |-> LineOf(k)]]
    ELSE StopsReadLoop(recs, Put(stops, recs[k].id, NewStop),
                       IF recs[k].parent_station # ""
                       THEN Put(pids, recs[k].id,
                                [pid |-> recs[k].parent_station, line |-> LineOf(k)])
                       ELSE pids,
                       k + 1, opt)

RECURSIVE LinkParents(_, _, _, _, _, _)
LinkParents(stops, pids, order, k, curline, opt) ==
    IF k > Len(order) THEN [Stops |-> stops, err |-> NoErr, cause |-> NoCause]
    ELSE
        LET id == order[k]
            pid == pids[id].pid
            ok == pid \in DOMAIN stops
        IN  IF ~ok /\ opt.UseDefValueOnError
            THEN LinkParents(stops, pids, order, k + 1, curline, opt)
            ELSE IF ~ok /\ ~opt.DropErroneous
            THEN [Stops |-> stops,
                  err |-> ParseError("stops.txt", curline, "No station with id found"),
                  cause |-> [file |-> "stops.txt", line |-> pids[id].line]]
            ELSE
                LET stops1 == IF ~ok THEN Del(stops, id) ELSE stops
                IN  IF id \notin DOMAIN stops1
                    THEN \* feed.Stops[id] is nil: the store through it panics,
                         \* and the deferred recover makes a ParseError of it
                         [Stops |-> stops1,
                          err |-> ParseError("stops.txt", curline,
                                             "nil pointer dereference"),
                          cause |-> NoCause]
                    ELSE LinkParents(
                             [stops1 EXCEPT ![id].Parent_station = IF ok THEN pid ELSE ""],
                             pids, order, k + 1, curline, opt)

Restrict(order, S) == SelectSeq(order, LAMBDA x : x \in S)

parseStops(s, order, opt) ==
    LET g == getFile(s, "stops.txt")
    IN  IF ~g.found
        THEN [g.s EXCEPT !.e = PlainError("Could not open required file stops.txt")]
        ELSE
            LET recs == files["stops.txt"]
                r == StopsReadLoop(recs, g.s.feed.Stops, EmptyMap, 1, opt)
            IN  IF r.err # NoErr
                THEN [g.s EXCEPT !.feed.Stops = r.Stops, !.e = r.err, !.cause = r.cause]
                ELSE LET l == LinkParents(r.Stops, r.pids,
                                          Restrict(order, DOMAIN r.pids), 1,
                                          Curline(recs), opt)
                     IN  [g.s EXCEPT !.feed.Stops = l.Stops, !.e = l.err,
                                     !.cause = l.cause]

-----------------------------------------------------------------------------
(* The two check blocks of Parse.  order is the order of the range over    *)
(* feed.Shapes / feed.Trips.                                               *)

LineOfSeq(elems, seq) ==
    (CHOOSE x \in {elems[k] : k \in DOMAIN elems} : x.Sequence = seq).line

RECURSIVE ShapeCheckLoop(_, _, _, _)
ShapeCheckLoop(shapes, order, k, opt) ==
    IF k > Len(order) THEN [Shapes |-> shapes, err |-> NoErr, cause |-> NoCause]
    ELSE LET id == order[k]
             r == checkShapeMeasure(SortBySeq(shapes[id].Points), opt)
             shapes1 == [shapes EXCEPT ![id].Points = r.points]
         IN  IF r.err # NoErr
             THEN [Shapes |-> shapes1, err |-> r.err,
                   cause |-> [file |-> "shapes.txt",
                              line |-> LineOfSeq(r.points, r.seq)]]
             ELSE ShapeCheckLoop(shapes1, order, k + 1, opt)

checkShapes(s, order, opt) ==
    LET r == ShapeCheckLoop(s.feed.Shapes, Restrict(order, DOMAIN s.feed.Shapes), 1, opt)
        cleared == [id \in DOMAIN r.Shapes |-> NilShape]
    IN  [s EXCEPT !.feed.Shapes = IF opt.DryRun THEN cleared ELSE r.Shapes,
                  !.e = r.err, !.cause = r.cause]

RECURSIVE StopTimeCheckLoop(_, _, _, _)
StopTimeCheckLoop(trips, order, k, opt) ==
    IF k > Len(order)
    THEN [Trips |-> trips, err |-> NoErr, cause |-> NoCause, fault |-> FALSE]
    ELSE LET id == order[k]
             r == checkStopTimeMeasure(SortBySeq(trips[id].StopTimes), opt)
             trips1 == [trips EXCEPT ![id].StopTimes = r.stopTimes]
         IN  IF r.fault
             THEN [Trips |-> trips1, err |-> NoErr, cause |-> NoCause, fault |-> TRUE]
             ELSE IF r.err # NoErr
             THEN [Trips |-> trips1, err |-> r.err,
                   cause |-> [file |-> "stop_times.txt",
                              line |-> LineOfSeq(r.stopTimes, r.seq)],
                   fault |-> FALSE]
             ELSE StopTimeCheckLoop(
                      IF opt.DryRun THEN [trips1 EXCEPT ![id] = NilTrip] ELSE trips1,
                      order, k + 1, opt)

checkStopTimes(s, order, opt) ==
    LET r == StopTimeCheckLoop(s.feed.Trips, Restrict(order, DOMAIN s.feed.Trips), 1, opt)
    IN  [s EXCEPT !.feed.Trips = r.Trips, !.e = r.err, !.cause = r.cause,
                  !.fault = r.fault]

-----------------------------------------------------------------------------
(* The sources Parse is run on: a minimal valid feed in which at most      *)
(* MaxAbsent files are missing, or in which one file holds any records of  *)
(* its kind, at most MaxRecs of them.                                      *)

MaxRecs == 2
MaxAbsent == 2

Ids == {"1", "2"}

TableFiles ==
    {"agency.txt", "routes.txt", "calendar.txt", "calendar_dates.txt",
     "trips.txt", "fare_attributes.txt"}

PlainFiles == {"feed_info.txt", "fare_rules.txt", "frequencies.txt", "transfers.txt"}

FileNameSet == TableFiles \cup PlainFiles \cup {"stops.txt", "shapes.txt", "stop_times.txt"}

DistinctSeqs(s) == \A a, b \in DOMAIN s : a # b => s[a].Sequence # s[b].Sequence

DeclaredDists == {<<FALSE, 0>>, <<TRUE, 0>>, <<TRUE, 1>>}

(* the times and distances of the stop-time records: <<time, has, dist>> *)
StopTimeFields == {<<0, FALSE, 0>>, <<1, FALSE, 0>>, <<0, TRUE, 0>>, <<0, TRUE, 1>>}

(* the records of a file; every reference they hold names the id "1", and *)
(* of the records a materializer rejects one per id (or sequence) is held *)
Records(name) ==
    CASE name = "routes.txt" -> [id : Ids, agency_id : {"1"}, bad : BOOLEAN]
      [] name = "trips.txt" ->
            [id : Ids, route_id : {"1"}, service_id : {"1"}, bad : BOOLEAN]
      [] name = "fare_rules.txt" -> [fare_id : {"1"}, bad : BOOLEAN]
      [] name = "frequencies.txt" -> [trip_id : {"1"}, bad : BOOLEAN]
      [] name = "transfers.txt" -> [from_stop_id : {"1"}, bad : BOOLEAN]
      [] name = "feed_info.txt" -> [bad : BOOLEAN]
      [] name = "stops.txt" ->
            {r \in [id : Ids, parent_station : Ids \cup {""}, bad : BOOLEAN] :
                r.bad => r.parent_station = ""}
      [] name = "shapes.txt" ->
            {r \in {[id |-> "1", Sequence |-> q, Has_dist |-> d[1],
                     Dist_traveled |-> d[2], bad |-> b] :
                        q \in 1..MaxRecs, d \in DeclaredDists, b \in BOOLEAN} :
                r.bad => ~r.Has_dist}
      [] name = "stop_times.txt" ->
            {r \in {[id |-> "1", stop_id |-> "1", Sequence |-> q, Arrival_time |-> f[1],
                     Departure_time |-> f[1], Has_dist |-> f[2],
                     Shape_dist_traveled |-> f[3], bad |-> b] :
                        q \in 1..MaxRecs, f \in StopTimeFields, b \in BOOLEAN} :
                r.bad => (r.Arrival_time = 0 /\ ~r.Has_dist)}
      [] OTHER -> [id : Ids, bad : BOOLEAN]

Contents(name) ==
    IF name \in {"shapes.txt", "stop_times.txt"}
    THEN {s \in SeqsUpTo(Records(name), MaxRecs) : DistinctSeqs(s)}
    ELSE SeqsUpTo(Records(name), MaxRecs)

(* the minimal valid feed: one valid record in every file *)
BaseRecord(name) ==
    CHOOSE r \in Records(name) :
        /\ ~r.bad
        /\ name \in TableFiles \cup {"stops.txt", "shapes.txt", "stop_times.txt"}
              => r.id = "1"
        /\ name = "stops.txt" => r.parent_station = ""
        /\ name \in {"shapes.txt", "stop_times.txt"} => r.Sequence = 1 /\ ~r.Has_dist
        /\ name = "stop_times.txt" => r.Arrival_time = 0

BaseFiles == [name \in FileNameSet |-> <<BaseRecord(name)>>]

-----------------------------------------------------------------------------
(* Parse *)

StageOrder ==
    <<"agencies", "feedinfos", "stops", "shapes", "shapecheck", "routes",
      "calendar", "calendardates", "trips", "stoptimes", "stoptimecheck",
      "fareattributes", "farerules", "frequencies", "transfers">>

StageIndex(stage) == CHOOSE k \in DOMAIN StageOrder : StageOrder[k] = stage

After(stage) ==
    IF StageIndex(stage) = Len(StageOrder) THEN "close"
    ELSE StageOrder[StageIndex(stage) + 1]

FreshState ==
    [feed |-> NewFeed, e |-> NoErr, open |-> {}, zipFileCloser |-> "nil",
     curFileHandle |-> "nil", cause |-> NoCause, fault |-> FALSE]

Cur ==
    [feed |-> feed, e |-> e, open |-> open, zipFileCloser |-> zipFileCloser,
     curFileHandle |-> curFileHandle, cause |-> cause, fault |-> FALSE]

InitParse ==
    /\ opts \in ParseOptions
    /\ pc = "agencies"
    /\ shape = <<>>
    /\ shape0 = <<>>
    /\ trip = <<>>
    /\ trip0 = <<>>
    /\ ret = NoErr
    /\ fault = FALSE
    /\ srcKind \in {"dir", "zip"}
    /\ \/ /\ present \in {FileNameSet \ a : a \in {b \in SUBSET FileNameSet :
                                                     Cardinality(b) <= MaxAbsent}}
          /\ files = BaseFiles
       \/ /\ present = FileNameSet
          /\ \E name \in FileNameSet :
                \E c \in Contents(name) : files = [BaseFiles EXCEPT ![name] = c]
    /\ feed = NewFeed
    /\ e = NoErr
    /\ started = <<>>
    /\ open = {}
    /\ zipFileCloser = "nil"
    /\ curFileHandle = "nil"
    /\ zipCloses = 0
    /\ cause = NoCause

ProceedAlways(err) == TRUE

(* if e == nil *)
Proceed(err) == err = NoErr

RunStage(stage, s) ==
    /\ pc = stage
    /\ IF Proceed(e)
       THEN /\ started' = Append(started, stage)
            /\ feed' = s.feed
            /\ e' = s.e
            /\ open' = s.open
            /\ zipFileCloser' = s.zipFileCloser
            /\ curFileHandle' = s.curFileHandle
            /\ cause' = s.cause
            /\ fault' = s.fault
            /\ pc' = IF s.fault THEN "panic" ELSE After(stage)
       ELSE /\ pc' = After(stage)
            /\ UNCHANGED <<started, feed, e, open, zipFileCloser, curFileHandle,
                           cause, fault>>
    /\ UNCHANGED <<opts, shape, shape0, trip, trip0, ret, srcKind, present, files,
                   zipCloses>>

StageAgencies == RunStage("agencies", parseAgencies(Cur, opts))

StageFeedInfos == RunStage("feedinfos", parseFeedInfos(Cur, opts))

StageStops == \E order \in Orders(Ids) : RunStage("stops", parseStops(Cur, order, opts))

StageShapes == RunStage("shapes", parseShapes(Cur, opts))

StageShapeCheck ==
    \E order \in Orders(Ids) : RunStage("shapecheck", checkShapes(Cur, order, opts))

StageRoutes == RunStage("routes", parseRoutes(Cur, opts))

StageCalendar == RunStage("calendar", parseCalendar(Cur, opts))

StageCalendarDates == RunStage("calendardates", parseCalendarDates(Cur, opts))

StageTrips == RunStage("trips", parseTrips(Cur, opts))

StageStopTimes == RunStage("stoptimes", parseStopTimes(Cur, opts))

StageStopTimeCheck ==
    \E order \in Orders(Ids) :
        RunStage("stoptimecheck", checkStopTimes(Cur, order, opts))

StageFareAttributes == RunStage("fareattributes", parseFareAttributes(Cur, opts))

StageFareRules == RunStage("farerules", parseFareAttributeRules(Cur, opts))

StageFrequencies == RunStage("frequencies", parseFrequencies(Cur, opts))

StageTransfers == RunStage("transfers", parseTransfers(Cur, opts))

(* close open readers; return e *)
CloseAndReturn ==
    /\ pc = "close"
    /\ zipCloses' = IF zipFileCloser # "nil" THEN zipCloses + 1 ELSE zipCloses
    /\ open' = IF curFileHandle # "nil" THEN open \ {curFileHandle} ELSE open
    /\ ret' = e
    /\ pc' = "done"
    /\ UNCHANGED <<opts, shape, shape0, trip, trip0, fault, srcKind, present, files,
                   feed, e, started, zipFileCloser, curFileHandle, cause>>

NextParse ==
    \/ StageAgencies
    \/ StageFeedInfos
    \/ StageStops
    \/ StageShapes
    \/ StageShapeCheck
    \/ StageRoutes
    \/ StageCalendar
    \/ StageCalendarDates
    \/ StageTrips
    \/ StageStopTimes
    \/ StageStopTimeCheck
    \/ StageFareAttributes
    \/ StageFareRules
    \/ StageFrequencies
    \/ StageTransfers
    \/ CloseAndReturn

SpecParse == InitParse /\ [][NextParse]_vars

-----------------------------------------------------------------------------
(* Parse as a function of the source: the stages in order, each under      *)
(* "if e == nil", with the maps ranged over in one fixed order.            *)

FixedOrder == CHOOSE o \in Orders(Ids) : TRUE

StageOp(stage, s, order, opt) ==
    CASE stage = "agencies" -> parseAgencies(s, opt)
      [] stage = "feedinfos" -> parseFeedInfos(s, opt)
      [] stage = "stops" -> parseStops(s, order, opt)
      [] stage = "shapes" -> parseShapes(s, opt)
      [] stage = "shapecheck" -> checkShapes(s, order, opt)
      [] stage = "routes" -> parseRoutes(s, opt)
      [] stage = "calendar" -> parseCalendar(s, opt)
      [] stage = "calendardates" -> parseCalendarDates(s, opt)
      [] stage = "trips" -> parseTrips(s, opt)
      [] stage = "stoptimes" -> parseStopTimes(s, opt)
      [] stage = "stoptimecheck" -> checkStopTimes(s, order, opt)
      [] stage = "fareattributes" -> parseFareAttributes(s, opt)
      [] stage = "farerules" -> parseFareAttributeRules(s, opt)
      [] stage = "frequencies" -> parseFrequencies(s, opt)
      [] stage = "transfers" -> parseTransfers(s, opt)

RECURSIVE RunStages(_, _, _)
RunStages(s, k, opt) ==
    IF k > Len(StageOrder) \/ s.fault THEN s
    ELSE RunStages(IF Proceed(s.e) THEN StageOp(StageOrder[k], s, FixedOrder, opt) ELSE s,
                   k + 1, opt)

ParseRun(opt) == RunStages(FreshState, 1, opt)

-----------------------------------------------------------------------------
(* Properties *)

Strict(opt) == ~opt.UseDefValueOnError /\ ~opt.DropErroneous /\ ~opt.DryRun

DropOnly(opt) == opt.DropErroneous /\ ~opt.UseDefValueOnError

Max(S) == CHOOSE x \in S : \A y \in S : y <= x

(* the largest distance declared by the elements of a set of positions *)
MaxDeclared(pts, K) ==
    Max({NegInf} \cup {pts[k].Dist_traveled : k \in {x \in K : pts[x].Has_dist}})

(* the stable filter: a point goes iff it declares less than the largest   *)
(* distance declared by an earlier point that was kept                     *)
RECURSIVE StableFilter(_, _, _)
StableFilter(pts, k, kept) ==
    IF k > Len(pts) THEN kept
    ELSE IF pts[k].Has_dist
            /\ pts[k].Dist_traveled < MaxDeclared(kept, DOMAIN kept)
    THEN StableFilter(pts, k + 1, kept)
    ELSE StableFilter(pts, k + 1, Append(kept, pts[k]))

DistsNonDecreasing(pts) ==
    \A a, b \in DOMAIN pts :
        (a < b /\ pts[a].Has_dist /\ pts[b].Has_dist)
            => pts[a].Dist_traveled <= pts[b].Dist_traveled

(* C1: with drop_erroneous set and use_default_on_error unset, when some   *)
(* stop of stops.txt names a parent_station that is not among the parsed   *)
(* stops, parseStops ends without error, that stop is absent from          *)
(* Feed.Stops and every other parsed stop is present.                      *)
StopsRead == StopsReadLoop(files["stops.txt"], EmptyMap, EmptyMap, 1, opts)

UnresolvedStops ==
    {id \in DOMAIN StopsRead.pids : StopsRead.pids[id].pid \notin DOMAIN StopsRead.Stops}

C1_DropUnresolvedParent ==
    (/\ pc = "shapes"
     /\ DropOnly(opts)
     /\ Len(started) = StageIndex("stops")
     /\ "stops.txt" \in present
     /\ UnresolvedStops # {})
        => /\ e = NoErr
           /\ DOMAIN feed.Stops = DOMAIN StopsRead.Stops \ UnresolvedStops

(* C2: with drop_erroneous set and use_default_on_error unset, the shape   *)
(* check of a shape sorted by sequence leaves the stable filter of its     *)
(* points: a point is removed iff it declares a distance smaller than the  *)
(* largest distance declared by an earlier retained point, the survivors   *)
(* keep their order, and the declared distances left are non-decreasing.   *)
C2_ShapeStableFilter ==
    (pc = "done" /\ DropOnly(opts))
        => /\ shape = StableFilter(shape0, 1, <<>>)
           /\ DistsNonDecreasing(shape)

(* C3: with drop_erroneous set and use_default_on_error unset, after the   *)
(* stop-time check returns, no adjacent pair of the remaining stop-times   *)
(* has a previous departure later than the current arrival (both given),   *)
(* and the declared distances of the remaining stop-times are              *)
(* non-decreasing.                                                         *)
C3_StopTimesConsistent ==
    (pc = "done" /\ DropOnly(opts))
        => /\ \A k \in 1..(Len(trip) - 1) : ~TimeOrderBroken(trip[k], trip[k + 1])
           /\ \A a, b \in DOMAIN trip :
                (a < b /\ trip[a].Has_dist /\ trip[b].Has_dist)
                    => trip[a].Shape_dist_traveled <= trip[b].Shape_dist_traveled

(* C4: after a successful Parse with dry_run set, every valid Shape,       *)
(* Route, Service and Trip id is in its table as a cleared placeholder,    *)
(* and Agencies, Stops, FareAttributes and Transfers hold what they hold   *)
(* after the same parse with dry_run unset.                                *)
Reference == ParseRun([opts EXCEPT !.DryRun = FALSE]).feed

DryRunSucceeded == pc = "done" /\ ret = NoErr /\ opts.DryRun

Placeholders ==
    /\ DOMAIN feed.Shapes = DOMAIN Reference.Shapes
    /\ DOMAIN feed.Routes = DOMAIN Reference.Routes
    /\ DOMAIN feed.Services = DOMAIN Reference.Services
    /\ DOMAIN feed.Trips = DOMAIN Reference.Trips
    /\ \A id \in DOMAIN feed.Shapes : feed.Shapes[id] = NilShape
    /\ \A id \in DOMAIN feed.Routes : feed.Routes[id] = "nil"
    /\ \A id \in DOMAIN feed.Services : feed.Services[id] = "nil"
    /\ \A id \in DOMAIN feed.Trips : feed.Trips[id] = NilTrip

RetainedTables ==
    /\ feed.Agencies = Reference.Agencies
    /\ feed.Stops = Reference.Stops
    /\ feed.FareAttributes = Reference.FareAttributes

C4_DryRunKeepsTransfers ==
    DryRunSucceeded
        => Placeholders /\ RetainedTables /\ feed.Transfers = Reference.Transfers

(* C4, amended: after a successful Parse with dry_run set, every valid     *)
(* Shape, Route, Service and Trip id is in its table as a cleared          *)
(* placeholder, Agencies, Stops and FareAttributes hold what they hold     *)
(* after the same parse with dry_run unset, and Transfers is empty.        *)
C4_DryRunRetention ==
    DryRunSucceeded => Placeholders /\ RetainedTables /\ feed.Transfers = <<>>

C4_Witness ==
    /\ DryRunSucceeded
    /\ DOMAIN feed.Routes # {}
    /\ DOMAIN feed.Trips # {}
    /\ DOMAIN feed.Agencies # {}
    /\ Reference.Transfers # <<>>

(* C5: Parse ends with an error whenever a required file is absent, the    *)
(* required files being agency, stops, routes, trips, stop-times and at    *)
(* least one of calendar and calendar-dates: a source with neither         *)
(* calendar.txt nor calendar_dates.txt makes Parse return an error.        *)
RequiredFiles == {"agency.txt", "stops.txt", "routes.txt", "trips.txt", "stop_times.txt"}

CalendarFiles == {"calendar.txt", "calendar_dates.txt"}

C5_RequiredFilesFail ==
    pc = "done"
        => /\ (RequiredFiles \ present # {} => ret # NoErr)
           /\ (CalendarFiles \cap present = {} => ret # NoErr)

(* C6: when Parse ends, every handle opened through getFile has been       *)
(* closed, the archive handle exactly once, and at no point of a parse is  *)
(* more than one data file open.                                           *)
C6_HandlesClosed ==
    /\ pc = "done" => (open = {} /\ (zipFileCloser # "nil" => zipCloses = 1))
    /\ Cardinality(open) <= 1

(* C7: the stages Parse starts form a prefix of the fixed stage order; a   *)
(* stage starts only when every earlier stage has ended without error;     *)
(* once a stage or check reports an error, no later stage starts and that  *)
(* error is the value Parse returns.                                       *)
IsPrefix(s, u) == Len(s) <= Len(u) /\ \A k \in DOMAIN s : s[k] = u[k]

C7_StagePrefix ==
    /\ [](IsPrefix(started, StageOrder))
    /\ [][started' # started => e = NoErr]_vars
    /\ [][e # NoErr => (started' = started /\ e' = e)]_vars
    /\ [](pc = "done" => ret = e)

C7_Witness ==
    /\ pc = "done"
    /\ ret # NoErr
    /\ Len(started) > 1
    /\ Len(started) < Len(StageOrder)

(* C8: with all three options false, every invalid record or cross-record *)
(* inconsistency makes Parse return a ParseError that carries the name of  *)
(* the file the offending record came from and the 1-based line of that    *)
(* record.                                                                 *)
C8_ParseErrorNamesRecord ==
    (pc = "done" /\ Strict(opts) /\ cause # NoCause)
        => /\ ret.kind = "ParseError"
           /\ ret.file = cause.file
           /\ ret.line = cause.line

(* C9: whenever use_default_on_error is set, with drop_erroneous set or    *)
(* not, the shape check returns no error and removes no point: every point *)
(* that declares a distance below the running maximum of the distances     *)
(* declared before it is kept with distance zero and its has-distance flag *)
(* cleared, and every other point is unchanged.                            *)
C9_DefaultKeepsPoints ==
    (pc = "done" /\ opts.UseDefValueOnError)
        => /\ ret = NoErr
           /\ Len(shape) = Len(shape0)
           /\ \A k \in DOMAIN shape0 :
                shape[k] =
                    IF shape0[k].Has_dist
                       /\ shape0[k].Dist_traveled < MaxDeclared(shape0, 1..(k - 1))
                    THEN [shape0[k] EXCEPT !.Dist_traveled = 0, !.Has_dist = FALSE]
                    ELSE shape0[k]

C9_Witness ==
    /\ pc = "done"
    /\ opts.UseDefValueOnError
    /\ opts.DropErroneous
    /\ \E k \in DOMAIN shape0 : shape0[k].Has_dist /\ ~shape[k].Has_dist
    /\ \E k \in DOMAIN shape0 : k > 1 /\ shape0[k].Has_dist /\ shape[k].Has_dist

(* C10: for every stop-time sequence and every combination of the options  *)
(* the stop-time check reads and writes only indices inside the current    *)
(* bounds of the sequence, so it never ends by a run-time fault.           *)
C10_NoIndexFault == ~fault /\ pc # "panic"

=============================================================================
